---- MODULE Spec2Model ----
(***************************************************************************)
(* The relational schema declared in make_db.py (NSF award data), read as  *)
(* a state machine: the state is the target datastore (which storage       *)
(* objects exist and the rows each one holds), the operations are schema   *)
(* materialization (main), row inserts and row deletes.  The schema only   *)
(* declares constraints; the datastore is taken to enforce exactly what is *)
(* declared: primary keys, UNIQUE, NOT NULL, the Enum of Role.role and     *)
(* every ForeignKey with its ON DELETE action (CASCADE, SET NULL, or, when *)
(* none is written, NO ACTION: the statement fails if it would leave a     *)
(* referencing row behind).  A failing statement changes nothing.          *)
(*                                                                         *)
(* A column value is NULL (Python None) or a one-element tuple <<v>>.      *)
(* Only columns that carry a constraint or feed a derived attribute are    *)
(* kept in a row; free-text and date columns are left out.                 *)
(***************************************************************************)
EXTENDS Integers, Sequences, FiniteSets, TLC

VARIABLES objects, db, last, ret, cls, tablename

vars == <<objects, db, last, ret, cls, tablename>>

\* ------------------------------------------------------------- bounds
MaxId == 2
MaxRows == 5
MaxFrameRows == 2
MaxAddrRows == 3
MaxUniqueRows == 2
MaxRoleRows == 3
MaxLen == 3

Ids == 1..MaxId

NULL == <<>>

\* ------------------------------------------------------------- schema
\* One record per mapped class: its table name (MixinHelper.__tablename__ of
\* the class name), primary key, UNIQUE columns and NOT NULL columns.
Directorate ==
    [name |-> "directorate", pk |-> <<"id">>,
     unique |-> {"code", "phone"}, required |-> {"name"}]

Division ==
    [name |-> "division", pk |-> <<"id">>,
     unique |-> {"code", "phone"}, required |-> {"name"}]

Program ==
    [name |-> "program", pk |-> <<"id">>,
     unique |-> {"code"}, required |-> {}]

RelatedPrograms ==
    [name |-> "related_programs", pk |-> <<"pgm1_code", "pgm2_code">>,
     unique |-> {}, required |-> {}]

Award ==
    [name |-> "award", pk |-> <<"id">>, unique |-> {}, required |-> {}]

Publication ==
    [name |-> "publication", pk |-> <<"id">>,
     unique |-> {}, required |-> {"title"}]

State ==
    [name |-> "state", pk |-> <<"abbr">>,
     unique |-> {"name"}, required |-> {"name"}]

Country ==
    [name |-> "country", pk |-> <<"id">>,
     unique |-> {"alpha2", "alpha3"}, required |-> {"alpha2", "alpha3", "name"}]

Address ==
    [name |-> "address", pk |-> <<"id">>, unique |-> {}, required |-> {}]

Institution ==
    [name |-> "institution", pk |-> <<"id">>,
     unique |-> {"phone"}, required |-> {"name"}]

Funding ==
    [name |-> "funding", pk |-> <<"award_id", "pgm_id">>,
     unique |-> {}, required |-> {}]

\* Person with email = Column(String(100)) left without unique=True.
Person_email_not_unique ==
    [name |-> "person", pk |-> <<"id">>,
     unique |-> {}, required |-> {"fname", "lname"}]

Person ==
    [name |-> "person", pk |-> <<"id">>,
     unique |-> {"email"}, required |-> {"fname", "lname"}]

Author ==
    [name |-> "author", pk |-> <<"person_id", "pub_id">>,
     unique |-> {}, required |-> {}]

Affiliation ==
    [name |-> "affiliation", pk |-> <<"award_id", "person_id", "institution_id">>,
     unique |-> {}, required |-> {}]

Role ==
    [name |-> "role", pk |-> <<"award_id", "person_id">>,
     unique |-> {}, required |-> {}]

\* Base.metadata: every class declared on Base.
Base ==
    {Directorate, Division, Program, RelatedPrograms, Award, Publication,
     State, Country, Address, Institution, Funding, Person, Author,
     Affiliation, Role}

Tables == {c.name : c \in Base}

TableOf == [t \in Tables |-> CHOOSE c \in Base : c.name = t]

Table(t) == TableOf[t]

\* The Enum with one more value listed.
Role_role_with_student == {"pi", "co-pi", "po", "co-po", "student"}

\* Role.role = Column(Enum('pi', 'co-pi', 'po', 'co-po'))
Role_role == {"pi", "co-pi", "po", "co-po"}

Enums == {[table |-> "role", col |-> "role", values |-> Role_role]}

\* One record per ForeignKey(...) in the source.  Program.div_id and
\* Funding.pgm_id are declared CHAR(4) against an Integer key; the values are
\* compared as the integers they denote.
Division_dir_id ==
    [child |-> "division", col |-> "dir_id",
     parent |-> "directorate", pcol |-> "id", ondelete |-> "CASCADE"]

Program_div_id ==
    [child |-> "program", col |-> "div_id",
     parent |-> "division", pcol |-> "id", ondelete |-> "CASCADE"]

RelatedPrograms_pgm1_code ==
    [child |-> "related_programs", col |-> "pgm1_code",
     parent |-> "program", pcol |-> "id", ondelete |-> "CASCADE"]

RelatedPrograms_pgm2_code ==
    [child |-> "related_programs", col |-> "pgm2_code",
     parent |-> "program", pcol |-> "id", ondelete |-> "CASCADE"]

\* Publication.award_id declared ondelete='CASCADE' like the associations.
Publication_award_id_cascade ==
    [child |-> "publication", col |-> "award_id",
     parent |-> "award", pcol |-> "id", ondelete |-> "CASCADE"]

Publication_award_id ==
    [child |-> "publication", col |-> "award_id",
     parent |-> "award", pcol |-> "id", ondelete |-> "SET NULL"]

Address_state ==
    [child |-> "address", col |-> "state",
     parent |-> "state", pcol |-> "abbr", ondelete |-> "NO ACTION"]

Address_country ==
    [child |-> "address", col |-> "country",
     parent |-> "country", pcol |-> "alpha2", ondelete |-> "NO ACTION"]

\* Institution.address_id declared without ondelete.
Institution_address_id_no_action ==
    [child |-> "institution", col |-> "address_id",
     parent |-> "address", pcol |-> "id", ondelete |-> "NO ACTION"]

Institution_address_id ==
    [child |-> "institution", col |-> "address_id",
     parent |-> "address", pcol |-> "id", ondelete |-> "SET NULL"]

Funding_award_id ==
    [child |-> "funding", col |-> "award_id",
     parent |-> "award", pcol |-> "id", ondelete |-> "NO ACTION"]

Funding_pgm_id ==
    [child |-> "funding", col |-> "pgm_id",
     parent |-> "program", pcol |-> "id", ondelete |-> "NO ACTION"]

Author_person_id ==
    [child |-> "author", col |-> "person_id",
     parent |-> "person", pcol |-> "id", ondelete |-> "CASCADE"]

Author_pub_id ==
    [child |-> "author", col |-> "pub_id",
     parent |-> "publication", pcol |-> "id", ondelete |-> "CASCADE"]

Affiliation_award_id ==
    [child |-> "affiliation", col |-> "award_id",
     parent |-> "award", pcol |-> "id", ondelete |-> "CASCADE"]

Affiliation_person_id ==
    [child |-> "affiliation", col |-> "person_id",
     parent |-> "person", pcol |-> "id", ondelete |-> "CASCADE"]

Affiliation_institution_id ==
    [child |-> "affiliation", col |-> "institution_id",
     parent |-> "institution", pcol |-> "id", ondelete |-> "CASCADE"]

Role_award_id ==
    [child |-> "role", col |-> "award_id",
     parent |-> "award", pcol |-> "id", ondelete |-> "CASCADE"]

Role_person_id ==
    [child |-> "role", col |-> "person_id",
     parent |-> "person", pcol |-> "id", ondelete |-> "CASCADE"]

ForeignKeys ==
    {Division_dir_id, Program_div_id, RelatedPrograms_pgm1_code,
     RelatedPrograms_pgm2_code, Publication_award_id, Address_state,
     Address_country, Institution_address_id, Funding_award_id,
     Funding_pgm_id, Author_person_id, Author_pub_id, Affiliation_award_id,
     Affiliation_person_id, Affiliation_institution_id, Role_award_id,
     Role_person_id}

\* ------------------------------------------------- constraint enforcement
EmptyDb == [t \in Tables |-> {}]

Key(t, row) == [i \in 1..Len(Table(t).pk) |-> row[Table(t).pk[i]]]

PkCols(t) == {Table(t).pk[i] : i \in 1..Len(Table(t).pk)}

\* The rows of d that reference parent row p through fk.
Referencing(d, fk, p) ==
    {r \in d[fk.child] : r[fk.col] # NULL /\ r[fk.col] = p[fk.pcol]}

\* The foreign keys of d that name no existing parent row.
Dangling(d) ==
    {fk \in ForeignKeys :
        \E r \in d[fk.child] :
            /\ r[fk.col] # NULL
            /\ ~ \E p \in d[fk.parent] : p[fk.pcol] = r[fk.col]}

\* The constraints an INSERT of row into table t would violate.
InsertErrors(d, t, row) ==
    (IF \E c \in Table(t).required \cup PkCols(t) : row[c] = NULL
        THEN {"RequiredFieldMissing"} ELSE {})
    \cup
    (IF \E r \in d[t] :
            \/ Key(t, r) = Key(t, row)
            \/ \E c \in Table(t).unique : row[c] # NULL /\ r[c] = row[c]
        THEN {"UniquenessViolation"} ELSE {})
    \cup
    (IF \E e \in Enums :
            e.table = t /\ row[e.col] # NULL /\ row[e.col][1] \notin e.values
        THEN {"InvalidEnumValue"} ELSE {})
    \cup
    (IF \E fk \in ForeignKeys :
            /\ fk.child = t
            /\ row[fk.col] # NULL
            /\ ~ \E p \in d[fk.parent] : p[fk.pcol] = row[fk.col]
        THEN {"DanglingReference"} ELSE {})

\* ON DELETE CASCADE, to a fixed point: del[t] is the set of rows of t removed.
RECURSIVE Cascade(_, _)
Cascade(d, del) ==
    LET more == [t \in Tables |->
                    del[t] \cup
                    {r \in d[t] :
                        \E fk \in ForeignKeys :
                            /\ fk.child = t
                            /\ fk.ondelete = "CASCADE"
                            /\ \E p \in del[fk.parent] :
                                   r \in Referencing(d, fk, p)}]
    IN  IF more = del THEN del ELSE Cascade(d, more)

\* ON DELETE SET NULL: a surviving row loses its reference to a removed row.
SetNull(t, r, del) ==
    [c \in DOMAIN r |->
        IF \E fk \in ForeignKeys :
              /\ fk.child = t /\ fk.col = c /\ fk.ondelete = "SET NULL"
              /\ r[c] # NULL
              /\ \E p \in del[fk.parent] : p[fk.pcol] = r[c]
        THEN NULL ELSE r[c]]

\* DELETE of one row: the cascade, then the set-null updates; a reference left
\* dangling (a NO ACTION key) fails the statement and nothing changes.
DeleteResult(d, t, row) ==
    LET del   == Cascade(d, [u \in Tables |-> IF u = t THEN {row} ELSE {}])
        after == [u \in Tables |-> {SetNull(u, r, del) : r \in d[u] \ del[u]}]
    IN  IF Dangling(after) = {}
        THEN [db |-> after, err |-> {}]
        ELSE [db |-> d, err |-> {"IntegrityError"}]

RECURSIVE CountRows(_, _)
CountRows(d, ts) ==
    IF ts = {} THEN 0
    ELSE LET t == CHOOSE u \in ts : TRUE
         IN  Cardinality(d[t]) + CountRows(d, ts \ {t})

TotalRows(d) == CountRows(d, Tables)

\* create_all(engine, checkfirst=False): CREATE TABLE for every table, which
\* fails on a table that exists.
create_all_no_checkfirst(objs, d) ==
    [objects |-> objs \cup Tables,
     db      |-> [t \in Tables |-> IF t \in objs THEN d[t] ELSE {}],
     err     |-> IF objs \cap Tables # {} THEN {"OperationalError"} ELSE {}]

\* Base.metadata.create_all(engine): CREATE TABLE for every table of the
\* metadata the target does not hold yet (checkfirst); an existing table and
\* its rows are left as they are.
create_all(objs, d) ==
    [objects |-> objs \cup {t \in Tables : t \notin objs},
     db      |-> [t \in Tables |-> IF t \in objs THEN d[t] ELSE {}],
     err     |-> {}]

\* --------------------------------------------------- naming convention
\* A name is a sequence of one-character strings.
UpperSeq ==
    <<"A", "B", "C", "D", "E", "F", "G", "H", "I", "J", "K", "L", "M",
      "N", "O", "P", "Q", "R", "S", "T", "U", "V", "W", "X", "Y", "Z">>

LowerSeq ==
    <<"a", "b", "c", "d", "e", "f", "g", "h", "i", "j", "k", "l", "m",
      "n", "o", "p", "q", "r", "s", "t", "u", "v", "w", "x", "y", "z">>

Upper == {UpperSeq[k] : k \in DOMAIN UpperSeq}

Lower == {LowerSeq[k] : k \in DOMAIN LowerSeq}

Digit == {"0", "1", "2", "3", "4", "5", "6", "7", "8", "9"}

\* The end of the longest run of [a-z] that starts at position i of s.
RECURSIVE LowerRun(_, _)
LowerRun(s, i) ==
    IF i < Len(s) /\ s[i + 1] \in Lower THEN LowerRun(s, i + 1) ELSE i

\* re.sub('(.)([A-Z][a-z]+)', r'\1_\2', s) from position i on: leftmost,
\* non-overlapping, greedy matches.
RECURSIVE sub1(_, _)
sub1(s, i) ==
    IF i > Len(s) THEN <<>>
    ELSE IF /\ i + 2 <= Len(s)
            /\ s[i] # "\n"
            /\ s[i + 1] \in Upper
            /\ s[i + 2] \in Lower
         THEN LET j == LowerRun(s, i + 2)
              IN  <<s[i], "_">> \o SubSeq(s, i + 1, j) \o sub1(s, j + 1)
         ELSE <<s[i]>> \o sub1(s, i + 1)

\* re.sub('([a-z0-9])([A-Z])', r'\1_\2', s) from position i on.
RECURSIVE sub2(_, _)
sub2(s, i) ==
    IF i > Len(s) THEN <<>>
    ELSE IF /\ i + 1 <= Len(s)
            /\ s[i] \in Lower \cup Digit
            /\ s[i + 1] \in Upper
         THEN <<s[i], "_", s[i + 1]>> \o sub2(s, i + 2)
         ELSE <<s[i]>> \o sub2(s, i + 1)

\* str.lower()
lower(s) ==
    [i \in 1..Len(s) |->
        IF s[i] \in Upper
        THEN LowerSeq[CHOOSE k \in DOMAIN UpperSeq : UpperSeq[k] = s[i]]
        ELSE s[i]]

\* __tablename__ without the final .lower().
tablename_not_lowered(name) ==
    LET s1 == sub1(name, 1)
    IN  sub2(s1, 1)

\* MixinHelper.__tablename__ of a class named name.
__tablename__(name) ==
    LET s1 == sub1(name, 1)
    IN  lower(sub2(s1, 1))

\* The __name__ of each class declared on Base.
ClassNames ==
    {<<"D", "i", "r", "e", "c", "t", "o", "r", "a", "t", "e">>,
     <<"D", "i", "v", "i", "s", "i", "o", "n">>,
     <<"P", "r", "o", "g", "r", "a", "m">>,
     <<"R", "e", "l", "a", "t", "e", "d", "P", "r", "o", "g", "r", "a", "m", "s">>,
     <<"A", "w", "a", "r", "d">>,
     <<"P", "u", "b", "l", "i", "c", "a", "t", "i", "o", "n">>,
     <<"S", "t", "a", "t", "e">>,
     <<"C", "o", "u", "n", "t", "r", "y">>,
     <<"A", "d", "d", "r", "e", "s", "s">>,
     <<"I", "n", "s", "t", "i", "t", "u", "t", "i", "o", "n">>,
     <<"F", "u", "n", "d", "i", "n", "g">>,
     <<"P", "e", "r", "s", "o", "n">>,
     <<"A", "u", "t", "h", "o", "r">>,
     <<"A", "f", "f", "i", "l", "i", "a", "t", "i", "o", "n">>,
     <<"R", "o", "l", "e">>}

\* The table named by each ForeignKey('<table>.<column>') in the source.
ForeignKeyTargets ==
    {<<"d", "i", "r", "e", "c", "t", "o", "r", "a", "t", "e">>,
     <<"d", "i", "v", "i", "s", "i", "o", "n">>,
     <<"p", "r", "o", "g", "r", "a", "m">>,
     <<"a", "w", "a", "r", "d">>,
     <<"s", "t", "a", "t", "e">>,
     <<"c", "o", "u", "n", "t", "r", "y">>,
     <<"a", "d", "d", "r", "e", "s", "s">>,
     <<"p", "e", "r", "s", "o", "n">>,
     <<"p", "u", "b", "l", "i", "c", "a", "t", "i", "o", "n">>,
     <<"i", "n", "s", "t", "i", "t", "u", "t", "i", "o", "n">>}

\* The table named by each relationship(..., secondary='<table>').
SecondaryTables ==
    {<<"r", "e", "l", "a", "t", "e", "d", "_", "p", "r", "o", "g", "r", "a", "m", "s">>,
     <<"a", "f", "f", "i", "l", "i", "a", "t", "i", "o", "n">>,
     <<"f", "u", "n", "d", "i", "n", "g">>,
     <<"r", "o", "l", "e">>,
     <<"a", "u", "t", "h", "o", "r">>}

\* full_name with the middle initial never shown.
full_name_without_initial(self) == self.fname[1] \o " " \o self.lname[1]

\* Person.full_name
full_name(self) ==
    IF self.middle_init # NULL
    THEN self.fname[1] \o " " \o self.middle_init[1] \o ". " \o self.lname[1]
    ELSE self.fname[1] \o " " \o self.lname[1]

\* ------------------------------------------------------------- operations
\* `last` records the latest request: the operation, its table, the primary
\* key it named, the errors raised and the tables whose rows it changed.
NoOp == [op |-> "none", table |-> "", key |-> <<>>, err |-> {}, hit |-> {}]

Changed(d, e) == {t \in Tables : d[t] # e[t]}

\* main(): materialize the schema into the target; returns 0.
main ==
    LET res == create_all(objects, db)
    IN  /\ objects' = res.objects
        /\ db' = res.db
        /\ last' = [op |-> "main", table |-> "", key |-> <<>>,
                    err |-> res.err, hit |-> res.objects \ objects]
        /\ UNCHANGED <<ret, cls, tablename>>

\* INSERT of one row into table t.
Insert(t, row) ==
    LET errs == IF t \notin objects THEN {"NoSuchTable"}
                ELSE InsertErrors(db, t, row)
    IN  /\ db' = IF errs = {} THEN [db EXCEPT ![t] = @ \cup {row}] ELSE db
        /\ last' = [op |-> "insert", table |-> t, key |-> Key(t, row),
                    err |-> errs, hit |-> IF errs = {} THEN {t} ELSE {}]
        /\ UNCHANGED <<objects, ret, cls, tablename>>

\* DELETE of the stored row `row` of table t.
Delete(t, row) ==
    LET res == DeleteResult(db, t, row)
    IN  /\ row \in db[t]
        /\ db' = res.db
        /\ last' = [op |-> "delete", table |-> t, key |-> Key(t, row),
                    err |-> res.err, hit |-> Changed(db, res.db)]
        /\ UNCHANGED <<objects, ret, cls, tablename>>

\* Reading the derived attribute full_name of a stored Person.
FullName(self) ==
    /\ self \in db["person"]
    /\ ret' = <<full_name(self)>>
    /\ last' = [op |-> "full_name", table |-> "person",
                key |-> Key("person", self), err |-> {}, hit |-> {}]
    /\ UNCHANGED <<objects, db, cls, tablename>>

\* ------------------------------------------------------------- inputs
Ref == {NULL} \cup {<<i>> : i \in Ids}

\* Values offered for a nullable UNIQUE column.
UStr == {NULL, <<"x">>, <<"y">>}

DirectorateRows(codes, phones) ==
    {[id |-> <<i>>, code |-> c, name |-> <<"n">>, phone |-> p] :
        i \in Ids, c \in codes, p \in phones}

DivisionRows(codes, phones, dirs) ==
    {[id |-> <<i>>, code |-> c, name |-> <<"n">>, phone |-> p, dir_id |-> d] :
        i \in Ids, c \in codes, p \in phones, d \in dirs}

ProgramRows(codes, divs) ==
    {[id |-> <<i>>, code |-> c, div_id |-> d] :
        i \in Ids, c \in codes, d \in divs}

RelatedProgramsRows ==
    {[pgm1_code |-> <<i>>, pgm2_code |-> <<j>>] : i \in Ids, j \in Ids}

AwardRows == {[id |-> <<i>>] : i \in Ids}

PublicationRows(awards) ==
    {[id |-> <<i>>, title |-> <<"t">>, award_id |-> a] : i \in Ids, a \in awards}

StateRows(names) ==
    {[abbr |-> a, name |-> n] : a \in {<<"CA">>, <<"NY">>}, n \in names}

CountryRows(alpha2s, alpha3s) ==
    {[id |-> <<i>>, alpha2 |-> a, alpha3 |-> b, name |-> <<"n">>] :
        i \in Ids, a \in alpha2s, b \in alpha3s}

AddressRows(states, countries) ==
    {[id |-> <<i>>, state |-> s, country |-> c] :
        i \in Ids, s \in states, c \in countries}

InstitutionRows(phones, addrs) ==
    {[id |-> <<i>>, name |-> <<"n">>, phone |-> p, address_id |-> a] :
        i \in Ids, p \in phones, a \in addrs}

FundingRows ==
    {[award_id |-> <<i>>, pgm_id |-> <<j>>] : i \in Ids, j \in Ids}

PersonRows(fnames, lnames, inits, emails) ==
    {[id |-> <<i>>, fname |-> f, lname |-> l, middle_init |-> m, email |-> e] :
        i \in Ids, f \in fnames, l \in lnames, m \in inits, e \in emails}

PlainPersonRows == PersonRows({<<"Ada">>}, {<<"Lovelace">>}, {NULL}, {NULL})

AuthorRows ==
    {[person_id |-> <<i>>, pub_id |-> <<j>>] : i \in Ids, j \in Ids}

AffiliationRows ==
    {[award_id |-> <<i>>, person_id |-> <<j>>, institution_id |-> <<k>>] :
        i \in Ids, j \in Ids, k \in Ids}

RoleRows(roles) ==
    {[award_id |-> <<i>>, person_id |-> <<j>>, role |-> r] :
        i \in Ids, j \in Ids, r \in roles}

\* Rows with every optional attribute left out and every reference free.
PlainRows(t) ==
    CASE t = "directorate" -> DirectorateRows({NULL}, {NULL})
      [] t = "division" -> DivisionRows({NULL}, {NULL}, Ref)
      [] t = "program" -> ProgramRows({NULL}, Ref)
      [] t = "related_programs" -> RelatedProgramsRows
      [] t = "award" -> AwardRows
      [] t = "publication" -> PublicationRows(Ref)
      [] t = "state" -> {r \in StateRows({<<"California">>, <<"New York">>}) :
                            (r.abbr = <<"CA">>) <=> (r.name = <<"California">>)}
      [] t = "country" -> {r \in CountryRows({<<"US">>, <<"MX">>}, {<<"USA">>, <<"MEX">>}) :
                            /\ (r.id = <<1>>) <=> (r.alpha2 = <<"US">>)
                            /\ (r.alpha2 = <<"US">>) <=> (r.alpha3 = <<"USA">>)}
      [] t = "address" -> AddressRows({NULL, <<"CA">>}, {NULL, <<"US">>})
      [] t = "institution" -> InstitutionRows({NULL}, Ref)
      [] t = "funding" -> FundingRows
      [] t = "person" -> PlainPersonRows
      [] t = "author" -> AuthorRows
      [] t = "affiliation" -> AffiliationRows
      [] t = "role" -> RoleRows({<<"pi">>})

\* The tables that hold a row.
Populated == {t \in Tables : db[t] # {}}

\* A workload over the tables ts: inserts drawn from rows, and deletes of
\* stored rows.  The budget bounds the rows stored, not the attempts: an
\* insert that is rejected is always offered.
Inserts(ts, rows, budget) ==
    \E t \in ts : \E row \in rows[t] :
        Insert(t, row) /\ TotalRows(db') <= budget

Deletes(ts) == \E t \in ts : \E row \in db[t] : Delete(t, row)

Init ==
    /\ objects = {}
    /\ db = EmptyDb
    /\ last = NoOp
    /\ ret = NULL
    /\ cls = <<>>
    /\ tablename = <<>>

\* The org hierarchy with the two associations of Program.
OrgTables ==
    {"directorate", "division", "program", "related_programs", "award", "funding"}

\* Awards with their publications and authors.
PubTables == {"award", "publication", "person", "author"}

\* Awards with the people and institutions attached to them.
PeopleTables == {"award", "person", "institution", "affiliation", "role"}

RefClusters == {OrgTables, PubTables, PeopleTables}

PlainRowsOf == [t \in Tables |-> PlainRows(t)]

NextRef ==
    \/ main
    \/ \E c \in RefClusters : Populated \subseteq c /\ Inserts(c, PlainRowsOf, MaxRows)
    \/ Deletes(Tables)

SpecRef == Init /\ [][NextRef]_vars

\* One chain of references at a time: a stretch of the org hierarchy, or one
\* association with its parents, or the addresses with the institutions that
\* use them.
FrameClusters ==
    {{"directorate", "division", "program"},
     {"division", "program", "related_programs"},
     {"program", "award", "funding"},
     {"award", "publication", "person", "author"},
     {"award", "person", "institution", "affiliation"},
     {"award", "person", "role"},
     {"address", "institution"}}

\* Rows a chain may store: one for each of its tables, and MaxFrameRows where
\* that is more.
FrameBudget(c) ==
    IF Cardinality(c) > MaxFrameRows THEN Cardinality(c) ELSE MaxFrameRows

\* Plain rows; a row whose reference leads out of the chain references
\* nothing.
FrameRows ==
    [c \in FrameClusters |->
        [t \in c |->
            CASE t = "division" /\ "directorate" \notin c ->
                     DivisionRows({NULL}, {NULL}, {NULL})
              [] t = "program" /\ "division" \notin c -> ProgramRows({NULL}, {NULL})
              [] t = "institution" /\ "address" \notin c ->
                     InstitutionRows({NULL}, {NULL})
              [] t = "address" -> AddressRows({NULL}, {NULL})
              [] OTHER -> PlainRows(t)]]

NextFrame ==
    \/ main
    \/ \E c \in FrameClusters :
           /\ Populated \subseteq c
           /\ Inserts(c, FrameRows[c], FrameBudget(c))
    \/ Deletes(Tables)

SpecFrame == Init /\ [][NextFrame]_vars

\* Addresses with the reference tables and the institutions that use them.
AddrTables == {"state", "country", "address", "institution"}

AddrRows ==
    [t \in AddrTables |->
        IF t = "institution" THEN InstitutionRows({NULL, <<"555">>}, Ref)
        ELSE PlainRows(t)]

\* Addresses with what they reference, or with what references them.
AddrClusters == {{"state", "country", "address"}, {"address", "institution"}}

NextAddr ==
    \/ main
    \/ \E c \in AddrClusters :
           /\ Populated \subseteq c
           /\ Inserts(c, AddrRows, MaxAddrRows)
    \/ Deletes(AddrTables)

SpecAddr == Init /\ [][NextAddr]_vars

\* Declaring a class named cls: its table name is derived.
Declare ==
    /\ tablename = <<>>
    /\ tablename' = __tablename__(cls)
    /\ last' = [op |-> "declare", table |-> "", key |-> <<>>, err |-> {}, hit |-> {}]
    /\ UNCHANGED <<objects, db, ret, cls>>

\* Names offered besides the schema's own: every string of at most MaxLen
\* characters over a small alphabet.
Alphabet == {"A", "B", "a", "1"}

RECURSIVE Strings(_)
Strings(n) ==
    IF n = 0 THEN {<<>>}
    ELSE LET shorter == Strings(n - 1)
         IN  shorter \cup {Append(s, c) : s \in {x \in shorter : Len(x) = n - 1},
                                           c \in Alphabet}

InitName ==
    /\ objects = {}
    /\ db = EmptyDb
    /\ last = NoOp
    /\ ret = NULL
    /\ cls \in ClassNames \cup (Strings(MaxLen) \ {<<>>})
    /\ tablename = <<>>

NextName == Declare

SpecName == InitName /\ [][NextName]_vars

\* People and their derived full names.
FullNameRows ==
    [t \in {"person"} |->
        PersonRows({<<"Ada">>, <<"Grace">>}, {<<"Lovelace">>},
                   {NULL, <<"Q">>, <<"">>}, {NULL})]

NextPerson ==
    \/ main
    \/ Inserts({"person"}, FullNameRows, MaxId)
    \/ Deletes({"person"})
    \/ \E self \in db["person"] : FullName(self)

SpecPerson == Init /\ [][NextPerson]_vars

\* Roles of people on awards, with every value offered for Role.role.
RoleTables == {"award", "person", "role"}

RoleRowsOf ==
    [t \in RoleTables |->
        IF t = "role"
        THEN RoleRows({NULL, <<"pi">>, <<"co-pi">>, <<"po">>, <<"co-po">>,
                       <<"student">>, <<"PI">>})
        ELSE PlainRows(t)]

NextRole ==
    \/ main
    \/ Inserts(RoleTables, RoleRowsOf, MaxRoleRows)
    \/ Deletes(RoleTables)

SpecRole == Init /\ [][NextRole]_vars

\* One table with UNIQUE columns at a time, or one association with its parents.
UniqueClusters ==
    {{"directorate"}, {"division"}, {"program"}, {"state"}, {"country"},
     {"institution"}, {"person"},
     {"program", "related_programs"}, {"award", "program", "funding"},
     {"person", "publication", "author"},
     {"award", "person", "institution", "affiliation"},
     {"award", "person", "role"}}

UniqueRows(t) ==
    CASE t = "directorate" -> DirectorateRows(UStr, UStr)
      [] t = "division" -> DivisionRows(UStr, UStr, {NULL})
      [] t = "program" -> ProgramRows(UStr, {NULL})
      [] t = "state" -> StateRows({<<"x">>, <<"y">>})
      [] t = "country" -> CountryRows({<<"x">>, <<"y">>}, {<<"x">>, <<"y">>})
      [] t = "institution" -> InstitutionRows(UStr, {NULL})
      [] t = "person" -> PersonRows({<<"Ada">>}, {<<"Lovelace">>}, {NULL}, UStr)
      [] OTHER -> PlainRows(t)

\* In an association's cluster the parents are plain rows that reference
\* nothing.
ClusterRows ==
    [c \in UniqueClusters |->
        [t \in c |->
            IF Cardinality(c) = 1 THEN UniqueRows(t)
            ELSE CASE t = "role" -> RoleRows({<<"pi">>, <<"po">>})
                   [] t = "program" -> ProgramRows({NULL}, {NULL})
                   [] t = "publication" -> PublicationRows({NULL})
                   [] t = "institution" -> InstitutionRows({NULL}, {NULL})
                   [] OTHER -> PlainRows(t)]]

\* Rows a cluster may store: one for each of its tables, and MaxUniqueRows
\* where that is more.
UniqueBudget(c) ==
    IF Cardinality(c) > MaxUniqueRows THEN Cardinality(c) ELSE MaxUniqueRows

\* The stored rows are all rows of cluster c.
Holds(c) ==
    \A t \in Tables : db[t] \subseteq (IF t \in c THEN ClusterRows[c][t] ELSE {})

NextUnique ==
    \/ main
    \/ \E c \in UniqueClusters :
           /\ Holds(c)
           /\ Inserts(c, ClusterRows[c], UniqueBudget(c))
    \/ Deletes(Tables)

SpecUnique == Init /\ [][NextUnique]_vars

\* ------------------------------------------------------------- claims
HasKey(d, t, k) == \E r \in d[t] : Key(t, r) = k

KeysOf(d, t) == {Key(t, r) : r \in d[t]}

EntityTables ==
    {"directorate", "division", "program", "award", "publication", "person",
     "institution", "state", "country", "address"}

AssocTables == {"related_programs", "funding", "author", "affiliation", "role"}

\* C1: deleting a Directorate removes it, every Division under it, every
\* Program under those Divisions and every RelatedPrograms and Funding row
\* that references one of those Programs, and leaves no row referencing a
\* removed row.
C1_DeleteDirectorateCascades ==
    [][\A d \in db["directorate"] :
          Delete("directorate", d) =>
              LET divs == {v \in db["division"] : v.dir_id = d.id}
                  pgms == {p \in db["program"] : \E v \in divs : p.div_id = v.id}
              IN  /\ ~ \E e \in db'["directorate"] : e.id = d.id
                  /\ ~ \E v \in db'["division"] : \E w \in divs : v.id = w.id
                  /\ ~ \E p \in db'["program"] : \E q \in pgms : p.id = q.id
                  /\ ~ \E r \in db'["related_programs"] :
                         \E q \in pgms : r.pgm1_code = q.id \/ r.pgm2_code = q.id
                  /\ ~ \E f \in db'["funding"] : \E q \in pgms : f.pgm_id = q.id
                  /\ Dangling(db') = {}]_vars

\* C2: deleting an Award removes it, keeps every Publication that referenced
\* it with award_id set to null, and removes every Affiliation, Funding and
\* Role row whose award_id referenced it.
C2_DeleteAwardClearsAndCascades ==
    [][\A a \in db["award"] :
          Delete("award", a) =>
              /\ ~ \E e \in db'["award"] : e.id = a.id
              /\ \A p \in db["publication"] :
                     IF p.award_id = a.id
                     THEN [p EXCEPT !.award_id = NULL] \in db'["publication"]
                     ELSE p \in db'["publication"]
              /\ ~ \E r \in db'["affiliation"] : r.award_id = a.id
              /\ ~ \E r \in db'["funding"] : r.award_id = a.id
              /\ ~ \E r \in db'["role"] : r.award_id = a.id]_vars

\* C3: deleting an Address always succeeds; every Institution that referenced
\* it stays, with address_id null and its other attributes as they were, and
\* every other Institution is untouched.
C3_DeleteAddressSetsNull ==
    [][\A a \in db["address"] :
          Delete("address", a) =>
              /\ last'.err = {}
              /\ ~ \E e \in db'["address"] : e.id = a.id
              /\ db'["institution"] =
                     {IF i.address_id = a.id
                      THEN [i EXCEPT !.address_id = NULL] ELSE i :
                          i \in db["institution"]}
              /\ KeysOf(db', "institution") = KeysOf(db, "institution")]_vars

\* C3 witness: an Address was deleted and an Institution row was updated by it.
C3_Witness ==
    /\ last.op = "delete" /\ last.table = "address" /\ last.err = {}
    /\ "institution" \in last.hit
    /\ \E i \in db["institution"] : i.address_id = NULL /\ i.phone # NULL

\* The UNIQUE fields and the association keys, as the specification lists them.
UniqueFields ==
    {<<"directorate", "code">>, <<"directorate", "phone">>,
     <<"division", "code">>, <<"division", "phone">>, <<"program", "code">>,
     <<"state", "name">>, <<"country", "alpha2">>, <<"country", "alpha3">>,
     <<"institution", "phone">>, <<"person", "email">>}

AssocKey(t) ==
    CASE t = "related_programs" -> {"pgm1_code", "pgm2_code"}
      [] t = "funding" -> {"award_id", "pgm_id"}
      [] t = "author" -> {"person_id", "pub_id"}
      [] t = "affiliation" -> {"award_id", "person_id", "institution_id"}
      [] t = "role" -> {"award_id", "person_id"}

\* Row would repeat a stored value of a UNIQUE field of t, or the key tuple
\* of a stored association row.
Duplicates(d, t, row) ==
    \/ \E f \in UniqueFields :
          /\ f[1] = t
          /\ row[f[2]] # NULL
          /\ \E r \in d[t] : r[f[2]] = row[f[2]]
    \/ /\ t \in AssocTables
       /\ \E r \in d[t] : \A c \in AssocKey(t) : r[c] = row[c]

PairwiseDistinct(d) ==
    /\ \A f \in UniqueFields :
           \A r1, r2 \in d[f[1]] :
               r1 # r2 /\ r1[f[2]] # NULL => r1[f[2]] # r2[f[2]]
    /\ \A t \in AssocTables :
           \A r1, r2 \in d[t] :
               r1 # r2 => \E c \in AssocKey(t) : r1[c] # r2[c]

\* The rows of a set by their key in table t.
ByKey(t, rows) ==
    [k \in {Key(t, r) : r \in rows} |-> {r \in rows : Key(t, r) = k}]

\* The rows the uniqueness workloads offer for table t, by key.
UniqueInputs ==
    [t \in Tables |->
        ByKey(t, UNION {ClusterRows[c][t] : c \in {u \in UniqueClusters : t \in u}})]

\* C4: an insert that would repeat a stored value of a UNIQUE field, or the
\* key tuple of a stored association row, is rejected with a uniqueness
\* violation and changes no row; so the values stored in each UNIQUE field and
\* the key tuples of each association stay pairwise distinct.
C4_UniqueEnforced ==
    /\ [][\A t \in Tables :
              last'.table = t =>
                  \A row \in UniqueInputs[t][last'.key] :
                      (Duplicates(db, t, row) /\ Insert(t, row)) =>
                          ("UniquenessViolation" \in last'.err /\ db' = db)]_vars
    /\ []PairwiseDistinct(db)

\* C4 witness: with one Person stored, a Person with another id and the same
\* email was rejected for uniqueness alone.
C4_Witness ==
    /\ last.op = "insert" /\ last.table = "person"
    /\ last.err = {"UniquenessViolation"}
    /\ \E r \in db["person"] : r.email # NULL
    /\ ~ HasKey(db, "person", last.key)

\* The four roles: principal investigator, co-principal investigator, program
\* officer, co-program officer.
FourRoles == {"pi", "co-pi", "po", "co-po"}

\* The Role rows the workload offers, by key.
RoleInputs == ByKey("role", RoleRowsOf["role"])

\* C5: in the materialized schema a Role row whose role is a value outside
\* the four roles is rejected with InvalidEnumValue and changes nothing, and
\* no stored Role row carries a value outside the four.
C5_RoleEnum ==
    /\ [][last'.table = "role" =>
              \A row \in RoleInputs[last'.key] :
                  (row.role # NULL /\ Insert("role", row)) =>
                      IF row.role[1] \in FourRoles
                      THEN "InvalidEnumValue" \notin last'.err
                      ELSE "role" \in objects =>
                               ("InvalidEnumValue" \in last'.err /\ db' = db)]_vars
    /\ [](\A r \in db["role"] : r.role # NULL => r.role[1] \in FourRoles)

\* C5 witness: a Role row naming a stored Award and a stored Person, under a
\* key no stored Role row has, was rejected for its role alone.
C5_Witness ==
    /\ last.op = "insert" /\ last.table = "role"
    /\ last.err = {"InvalidEnumValue"}
    /\ \E a \in db["award"] : a.id = last.key[1]
    /\ \E p \in db["person"] : p.id = last.key[2]
    /\ ~ HasKey(db, "role", last.key)

RelatedProgramsName ==
    <<"R", "e", "l", "a", "t", "e", "d", "P", "r", "o", "g", "r", "a", "m", "s">>

Unscored(s) == SelectSeq(s, LAMBDA c : c # "_")

\* C6: the naming transform maps RelatedPrograms to related_programs,
\* Institution to institution and State to state; the 15 class names get 15
\* distinct table names, which are exactly the names the foreign keys and the
\* secondary-table references use; and it only inserts underscores and
\* lowercases.
C6_TableNames ==
    /\ Cardinality({__tablename__(c) : c \in ClassNames}) = 15
    /\ {__tablename__(c) : c \in ClassNames} = ForeignKeyTargets \cup SecondaryTables
    /\ tablename # <<>> =>
          /\ cls = RelatedProgramsName =>
                 tablename = <<"r", "e", "l", "a", "t", "e", "d", "_",
                               "p", "r", "o", "g", "r", "a", "m", "s">>
          /\ cls = <<"I", "n", "s", "t", "i", "t", "u", "t", "i", "o", "n">> =>
                 tablename = <<"i", "n", "s", "t", "i", "t", "u", "t", "i", "o", "n">>
          /\ cls = <<"S", "t", "a", "t", "e">> =>
                 tablename = <<"s", "t", "a", "t", "e">>
          /\ cls \in ClassNames =>
                 \A other \in ClassNames \ {cls} : __tablename__(other) # tablename
          /\ Unscored(tablename) = lower(cls)

\* C6 witness: the table name of RelatedPrograms has been derived.
C6_Witness ==
    /\ cls = RelatedProgramsName
    /\ last.op = "declare"
    /\ Len(tablename) = 16 /\ tablename[8] = "_"

\* C7: full_name is fname, a space, the middle initial, a period and a space,
\* lname when there is a middle initial, and fname, a space, lname when there
\* is none; reading it changes no stored attribute.
C7_FullName ==
    [][\A p \in db["person"] :
          FullName(p) =>
              /\ p.middle_init # NULL =>
                     ret' = <<p.fname[1] \o " " \o p.middle_init[1] \o ". " \o p.lname[1]>>
              /\ p.middle_init = NULL => ret' = <<p.fname[1] \o " " \o p.lname[1]>>
              /\ p.fname = <<"Ada">> /\ p.lname = <<"Lovelace">> /\ p.middle_init = <<"Q">>
                     => ret' = <<"Ada Q. Lovelace">>
              /\ p.fname = <<"Ada">> /\ p.lname = <<"Lovelace">> /\ p.middle_init = NULL
                     => ret' = <<"Ada Lovelace">>
              /\ db' = db /\ objects' = objects]_vars

\* C7 witness: the full name of Ada Q. Lovelace has been read.
C7_Witness ==
    /\ last.op = "full_name"
    /\ ret = <<"Ada Q. Lovelace">>
    /\ \E p \in db["person"] :
           Key("person", p) = last.key /\ p.middle_init = <<"Q">>

\* C8: materializing never errors and leaves every table of the schema in
\* place; against a target that already holds them all it creates nothing,
\* drops nothing and leaves the stored rows as they were.
C8_MaterializeIdempotent ==
    [][main =>
          /\ last'.err = {}
          /\ objects' = Tables
          /\ (objects = Tables) =>
                 (objects' = objects /\ db' = db /\ last'.hit = {})]_vars

\* C8 witness: the schema was materialized again over stored rows.
C8_Witness ==
    /\ last.op = "main" /\ last.hit = {} /\ last.err = {}
    /\ objects = Tables
    /\ TotalRows(db) > 1

\* The references held by association rows: <<association, column, entity>>.
AssocRefs ==
    {<<"related_programs", "pgm1_code", "program">>,
     <<"related_programs", "pgm2_code", "program">>,
     <<"funding", "award_id", "award">>, <<"funding", "pgm_id", "program">>,
     <<"author", "person_id", "person">>, <<"author", "pub_id", "publication">>,
     <<"affiliation", "award_id", "award">>,
     <<"affiliation", "person_id", "person">>,
     <<"affiliation", "institution_id", "institution">>,
     <<"role", "award_id", "award">>, <<"role", "person_id", "person">>}

\* No association row of d names an entity that d does not hold.
NoOrphanAssociation(d) ==
    \A f \in AssocRefs :
        \A r \in d[f[1]] : \E p \in d[f[3]] : p.id = r[f[2]]

\* Deleting row of table t removed every row of association a whose column c
\* named it.
LinksRemoved(t, row, a, c) ==
    Delete(t, row) => ~ \E r \in db'[a] : r[c] = row.id

\* An association row naming an entity that is not stored is rejected as a
\* dangling reference.
DanglingInsertRejected ==
    \A t \in AssocTables : \A row \in PlainRowsOf[t] :
        (/\ Insert(t, row)
         /\ t \in objects
         /\ \E f \in AssocRefs :
                f[1] = t /\ ~ \E p \in db[f[3]] : p.id = row[f[2]])
        => ("DanglingReference" \in last'.err /\ db' = db)

\* C9: no association row ever references an entity that is not stored;
\* deleting a Person removes its Author, Affiliation and Role rows, deleting a
\* Publication its Author rows, deleting an Institution its Affiliation rows,
\* deleting a Program every RelatedPrograms row naming it in either position;
\* and an association row naming a missing entity is rejected as dangling.
C9_NoOrphanAssociations ==
    [][/\ NoOrphanAssociation(db')
       /\ \A p \in db["person"] :
              /\ LinksRemoved("person", p, "author", "person_id")
              /\ LinksRemoved("person", p, "affiliation", "person_id")
              /\ LinksRemoved("person", p, "role", "person_id")
       /\ \A p \in db["publication"] :
              LinksRemoved("publication", p, "author", "pub_id")
       /\ \A i \in db["institution"] :
              LinksRemoved("institution", i, "affiliation", "institution_id")
       /\ \A p \in db["program"] :
              /\ LinksRemoved("program", p, "related_programs", "pgm1_code")
              /\ LinksRemoved("program", p, "related_programs", "pgm2_code")
       /\ DanglingInsertRejected]_vars

\* The tables a delete from t may remove rows of or update, by the declared
\* ondelete rules.
DeclaredReach(t) ==
    CASE t = "directorate" -> {"division", "program", "related_programs"}
      [] t = "division" -> {"program", "related_programs"}
      [] t = "program" -> {"related_programs"}
      [] t = "award" -> {"publication", "affiliation", "role"}
      [] t = "person" -> {"author", "affiliation", "role"}
      [] t = "publication" -> {"author"}
      [] t = "institution" -> {"affiliation"}
      [] t = "address" -> {"institution"}
      [] OTHER -> {}

\* The delete removed no row of table u.
NoneDeleted(u) == KeysOf(db', u) = KeysOf(db, u)

\* C10: a delete changes only tables the declared cascade and set-null rules
\* reach, and in its own table removes the named row alone.  Deleting an
\* Award deletes no Person, Institution, Program or Publication; deleting a
\* Person, Publication or Institution deletes no other entity row; deleting a
\* Division or Program deletes no Directorate, no parent Division and no
\* Award; deleting an association row deletes or changes no entity row.
C10_DeleteFrame ==
    [][\A t \in {u \in Tables : last'.table = u} : \A row \in db[t] :
          (Key(t, row) = last'.key /\ Delete(t, row)) =>
              /\ \A u \in Tables \ ({t} \cup DeclaredReach(t)) : db'[u] = db[u]
              /\ db[t] \ {row} \subseteq db'[t]
              /\ (t = "award") =>
                     /\ NoneDeleted("person") /\ NoneDeleted("institution")
                     /\ NoneDeleted("program") /\ NoneDeleted("publication")
              /\ (t \in {"person", "publication", "institution"}) =>
                     \A e \in EntityTables \ {t} : NoneDeleted(e)
              /\ (t = "division") =>
                     NoneDeleted("directorate") /\ NoneDeleted("award")
              /\ (t = "program") =>
                     /\ NoneDeleted("directorate") /\ NoneDeleted("division")
                     /\ NoneDeleted("award")
              /\ (t \in AssocTables) =>
                     \A e \in EntityTables : db'[e] = db[e]]_vars

\* C10 witness: an Award that a Publication referenced was deleted; the
\* Publication, its Author row and the Person are still stored.
C10_Witness ==
    /\ last.op = "delete" /\ last.table = "award" /\ last.err = {}
    /\ "publication" \in last.hit
    /\ db["publication"] # {} /\ db["author"] # {} /\ db["person"] # {}
====
